---- MODULE Spec2Model ----
(***************************************************************************)
(* uHand examples: the servo action player (HW_ACTION_CTL, table-driven    *)
(* and simple variants) and the ESP32Cam I2C link (HW_ESP32Cam, clamp and  *)
(* trace variants), as state machines.                                     *)
(***************************************************************************)
EXTENDS Integers, Sequences, FiniteSets, TLC

VARIABLES
  \* ---- HW_ACTION_CTL (uhand_servo.h / uhand_servo.cpp) ----
  action_num,            \* int action_num (private member)
  extended_func_angles,  \* uint8_t extended_func_angles[6]
  last_tick,             \* static uint32_t last_tick (action_task)
  step,                  \* static uint8_t step: 0 = APPLY, 1 = WAIT
  num,                   \* static uint8_t num: frame index
  delay_count,           \* static uint8_t delay_count: wait counter
  now,                   \* the value millis() returns
  \* ---- observation of the player (history, not program state) ----
  call,                  \* the last call: <<name>>, <<name, argument or result>>
  playing,               \* the argument of the last observed action_set
  applied,               \* angle vectors written since then
  gticks,                \* gate-passing action_task calls since then
  adv,                   \* clock advances so far, in half gate intervals
  jumps,                 \* number of long idle periods so far
  plays,                 \* number of observed action_set calls so far
  \* ---- a second HW_ACTION_CTL object: its members, and what it was seen doing ----
  b_action_num,          \* int action_num of the second object
  b_extended_func_angles,\* uint8_t extended_func_angles[6] of the second object
  b_playing,             \* the argument of its last observed action_set
  b_applied,             \* angle vectors it has written since then
  \* ---- HW_ESP32Cam (hw_esp32cam_ctl.cpp) and the I2C device behind Wire ----
  variant,               \* which example is running: "clamp" or "trace"
  bus,                   \* what the device answers now, per register
  s_call,                \* the HW_ESP32Cam method that has just returned
  s_ret,                 \* its return value
  s_log,                 \* the transactions it issued, in order
  s_buf0,                \* color_position: the caller's buffer before the call
  s_buf,                 \* color_position: the caller's buffer after the call
  \* ---- which player program runs ----
  prog,                  \* "table" (uhand_actions) or "simple" (uhand_actions_simple)
  \* ---- observation of the spacing of the player's writes (history) ----
  w_ticks,               \* gate-passing action_task calls since the last write, -1 before the first
  w_ms,                  \* milliseconds elapsed since the last write
  w_gap,                 \* <<ticks, ms>> between the last two writes, <<>> if none
  \* ---- two runs of the sensor link side by side, on one bus ----
  p_variant,             \* the example each run executes
  p_call,                \* the method both runs have just executed
  p_ret,                 \* its return value in each run
  p_log,                 \* the transactions each run issued
  p_buf,                 \* each run's caller buffer (kept from call to call)
  \* ---- observation of the time since last_tick was stamped (history) ----
  e_adv,                 \* milliseconds the clock was advanced since then
  e_jumps,               \* long idle periods since then
  e_last,                \* last_tick before it was stamped
  \* ---- one execution of WireReadDataArray, statement by statement ----
  d_pc,                  \* "idle", "loop" (at the while test) or "done"
  d_i,                   \* unsigned char i
  d_val,                 \* the output buffer val[0..len-1]
  d_ret,                 \* the value returned
  d_reads,               \* Wire.read() calls made so far
  d_exit                 \* how the function was left

pvars == <<action_num, extended_func_angles, last_tick, step, num, delay_count>>
hvars == <<playing, applied, gticks, plays>>
svars == <<variant, bus, s_call, s_ret, s_log, s_buf0, s_buf>>
ivars == <<b_action_num, b_extended_func_angles, b_playing, b_applied>>
wvars == <<w_ticks, w_ms, w_gap>>
rvars == <<p_variant, p_call, p_ret, p_log, p_buf>>
evars == <<e_adv, e_jumps, e_last>>
dvars == <<d_pc, d_i, d_val, d_ret, d_reads, d_exit>>
avars == <<action_num, extended_func_angles, last_tick, step, num, delay_count,
           now, call, playing, applied, gticks, adv, jumps, plays,
           b_action_num, b_extended_func_angles, b_playing, b_applied>>
vars == <<action_num, extended_func_angles, last_tick, step, num, delay_count,
          now, call, playing, applied, gticks, adv, jumps, plays,
          b_action_num, b_extended_func_angles, b_playing, b_applied,
          variant, bus, s_call, s_ret, s_log, s_buf0, s_buf,
          prog, w_ticks, w_ms, w_gap, p_variant, p_call, p_ret, p_log, p_buf,
          e_adv, e_jumps, e_last, d_pc, d_i, d_val, d_ret, d_reads, d_exit>>

-----------------------------------------------------------------------------
(* Bounds of the model *)

MaxAdv == 10
MaxJumps == 1
MaxPlays == 2
MaxSets == 3
MaxGapTicks == 5
MaxGapMs == 500
MaxReads == 6

-----------------------------------------------------------------------------
(* Machine arithmetic *)

\* A uint32_t is kept as <<high half, low half>> of 16 bits each (TLC's own
\* integers are narrower than 2^32).
W16 == 2^16
U8 == 2^8

U32Of(hi, lo) == <<hi, lo>>

\* uint32_t addition modulo 2^32
AddU32(a, b) ==
  LET lo == a[2] + b[2]
  IN  <<(a[1] + b[1] + (lo \div W16)) % W16, lo % W16>>

\* uint32_t subtraction modulo 2^32, as in millis() - last_tick
SubU32(a, b) ==
  LET lo == a[2] - b[2]
      borrow == IF lo < 0 THEN 1 ELSE 0
  IN  <<(a[1] - b[1] - borrow) % W16, lo % W16>>

\* unsigned comparison a < b
LtU32(a, b) == a[1] < b[1] \/ (a[1] = b[1] /\ a[2] < b[2])

\* uint8_t increment, as in num++ and delay_count++
IncU8(x) == (x + 1) % U8

-----------------------------------------------------------------------------
(* The action table of actions.h (the header is not part of the sources;   *)
(* the layout [action][frame][7] is the one action_task indexes, and row 1 *)
(* is the scenario table of the specification).                            *)

Sentinel == <<0, 0, 0, 0, 0, 0, 0>>

action ==
  << << <<1, 10, 20, 30, 40, 50, 60>>, Sentinel, Sentinel, Sentinel >>,
     << <<1, 90, 80, 70, 60, 50, 40>>, <<2, 0, 0, 0, 0, 0, 255>>,
        <<1, 5, 6, 7, 8, 9, 0>>, Sentinel >>,
     << <<3, 1, 2, 3, 4, 5, 6>>, Sentinel, <<1, 7, 7, 7, 7, 7, 7>>, Sentinel >> >>

action_count == 3

FrameDim == Len(action[1])

\* The index of action[a-1][n] is unchecked in the source.  The table is one
\* block of action_count * FrameDim frames, so an index past the end of a row
\* lands in the rows that follow.  An address outside the block holds
\* whatever seven bytes the build placed there.  action_task tests column 0
\* of them against zero and copies columns 1..6 as they are, and nothing in
\* the program computes with an angle, so the model tracks of such bytes
\* only whether column 0 is zero:
\*   AnyByte        stands for a byte of any value 0..255,
\*   AnyNonzeroByte stands for a byte of any value 1..255.
\* Neither is a uint8_t value, so neither is mistaken for a byte of the
\* table.  An angle that reads AnyByte stands for every value that place can
\* hold: [144,85,85,85,85,0] and [177,74,0,234,85,0] are both
\* <<AnyByte, AnyByte, AnyByte, AnyByte, AnyByte, AnyByte>>.
AnyByte == U8
AnyNonzeroByte == U8 + 1

\* What a read outside the block may find: any seven bytes.
StrayFrames ==
  { <<c, AnyByte, AnyByte, AnyByte, AnyByte, AnyByte, AnyByte>> :
      c \in {0, AnyNonzeroByte} }

\* Position of the frame action[a-1][n] in the block, counted in frames.
FrameOffset(a, n) == (a - 1) * FrameDim + n

\* The frames the expression action[a-1][n] may denote.
FrameAt(a, n) ==
  IF FrameOffset(a, n) \in 0..(action_count * FrameDim - 1)
    THEN { action[(FrameOffset(a, n) \div FrameDim) + 1][(FrameOffset(a, n) % FrameDim) + 1] }
    ELSE StrayFrames

\* Number of frames of row a before its first sentinel.
RECURSIVE RealCount(_, _)
RealCount(a, n) ==
  IF n >= FrameDim \/ action[a][n + 1][1] = 0 THEN n ELSE RealCount(a, n + 1)

\* The angle vectors of the frames of row a before its first sentinel, in order.
RealFrames(a) ==
  [i \in 1..RealCount(a, 0) |-> SubSeq(action[a][i], 2, 7)]

-----------------------------------------------------------------------------
(* HW_ACTION_CTL, table-driven variant *)

InitAngles == <<0, 0, 0, 0, 0, 90>>

GateMs == 100
WaitLimit == 2

\* (variant: the request is not compared with action_count)
PlayGuard_noUpper(a) == a # 0

\* if(action_num != 0 && action_num <= action_count)
PlayGuard(a) == a # 0 /\ a <= action_count

\* (variant: the gate compared against half the interval)
GateClosed_half(t, lt) == LtU32(SubU32(t, lt), U32Of(0, GateMs \div 2))

\* (variant: a clock value below last_tick counts as no time elapsed)
GateClosed_noWrap(t, lt) ==
  LtU32(t, lt) \/ LtU32(SubU32(t, lt), U32Of(0, GateMs))

\* if (millis() - last_tick < 100) return;
GateClosed(t, lt) == LtU32(SubU32(t, lt), U32Of(0, GateMs))

\* (variant: the columns copied are 0..5 instead of 1..6)
RunFrame_shifted(f) ==
  /\ extended_func_angles' = <<f[1], f[2], f[3], f[4], f[5], f[6]>>
  /\ step' = 1
  /\ UNCHANGED <<action_num, num, delay_count>>

\* case 0, frame present: copy columns 1..6 and go to WAIT
RunFrame(f) ==
  /\ extended_func_angles' = <<f[2], f[3], f[4], f[5], f[6], f[7]>>
  /\ step' = 1
  /\ UNCHANGED <<action_num, num, delay_count>>

\* (variant: the frame index is not reset at the end of the action)
Finished_keepNum ==
  /\ action_num' = 0
  /\ UNCHANGED <<extended_func_angles, step, num, delay_count>>

\* case 0, sentinel: the action is over
Finished ==
  /\ num' = 0
  /\ action_num' = 0
  /\ UNCHANGED <<extended_func_angles, step, delay_count>>

\* (variant: the wait ends when the counter reaches the limit, not when it
\* exceeds it)
WaitRun_short ==
  /\ IF IncU8(delay_count) >= WaitLimit
       THEN /\ num' = IncU8(num)
            /\ delay_count' = 0
            /\ step' = 0
       ELSE /\ delay_count' = IncU8(delay_count)
            /\ UNCHANGED <<num, step>>
  /\ UNCHANGED <<action_num, extended_func_angles>>

\* (variant: the wait ends by moving two frames on)
WaitRun_skip ==
  /\ IF IncU8(delay_count) > WaitLimit
       THEN /\ num' = IncU8(IncU8(num))
            /\ delay_count' = 0
            /\ step' = 0
       ELSE /\ delay_count' = IncU8(delay_count)
            /\ UNCHANGED <<num, step>>
  /\ UNCHANGED <<action_num, extended_func_angles>>

\* (variant: the wait counter is not cleared when the wait ends)
WaitRun_noReset ==
  /\ IF IncU8(delay_count) > WaitLimit
       THEN /\ num' = IncU8(num)
            /\ delay_count' = IncU8(delay_count)
            /\ step' = 0
       ELSE /\ delay_count' = IncU8(delay_count)
            /\ UNCHANGED <<num, step>>
  /\ UNCHANGED <<action_num, extended_func_angles>>

\* case 1: wait for the frame to run
WaitRun ==
  /\ IF IncU8(delay_count) > WaitLimit
       THEN /\ num' = IncU8(num)
            /\ delay_count' = 0
            /\ step' = 0
       ELSE /\ delay_count' = IncU8(delay_count)
            /\ UNCHANGED <<num, step>>
  /\ UNCHANGED <<action_num, extended_func_angles>>

\* default: step = 0
StepDefault ==
  /\ step' = 0
  /\ UNCHANGED <<action_num, extended_func_angles, num, delay_count>>

\* (variant: a new request restarts the sequence)
SetNum_restart(n) ==
  /\ action_num' = n
  /\ num' = 0
  /\ step' = 0
  /\ delay_count' = 0
  /\ UNCHANGED <<extended_func_angles, last_tick>>

\* void HW_ACTION_CTL::action_set(int num)
SetNum(n) ==
  /\ action_num' = n
  /\ UNCHANGED <<extended_func_angles, last_tick, step, num, delay_count>>

\* action_set called at any moment with any value
ActionSet(n) ==
  /\ SetNum(n)
  /\ call' = <<"action_set", n>>
  /\ UNCHANGED <<now, hvars, adv, jumps, svars, ivars, prog, evars, dvars, wvars, rvars>>

\* int HW_ACTION_CTL::action_state_get(void)
StateGet == action_num

ActionStateGet ==
  /\ call' = <<"action_state_get", StateGet>>
  /\ UNCHANGED <<pvars, now, hvars, adv, jumps, svars, ivars, prog, evars, dvars, wvars, rvars>>

\* The clock may move between the two millis() reads of one call (the gate
\* test and the stamp): by nothing, or by one step of the model's clock.
ReadDrift == {0, GateMs \div 2}

\* last_tick = millis(): the second read, d milliseconds after the first
Stamp(d) ==
  /\ now' = AddU32(now, U32Of(0, d))
  /\ last_tick' = now'

\* (variant: a call that finds nothing to play stamps last_tick)
TaskCall_stampIdle(d) ==
  IF ~PlayGuard(action_num)
    THEN /\ call' = <<"action_task", "idle">>
         /\ last_tick' = now
         /\ UNCHANGED <<action_num, extended_func_angles, step, num, delay_count>>
         /\ UNCHANGED now
  ELSE IF GateClosed(now, last_tick)
    THEN /\ call' = <<"action_task", "gated">>
         /\ UNCHANGED <<pvars, now>>
  ELSE /\ Stamp(d)
       /\ CASE step = 0 ->
                 \E f \in FrameAt(action_num, num) :
                   IF f[1] # 0
                     THEN RunFrame(f) /\ call' = <<"action_task", "apply">>
                     ELSE Finished /\ call' = <<"action_task", "done">>
            [] step = 1 ->
                 WaitRun /\ call' = <<"action_task", "wait">>
            [] OTHER ->
                 StepDefault /\ call' = <<"action_task", "default">>

\* void HW_ACTION_CTL::action_task(void): the call, with the branch it took;
\* d is how far the clock moves between its two millis() reads
TaskCall(d) ==
  IF ~PlayGuard(action_num)
    THEN /\ call' = <<"action_task", "idle">>
         /\ UNCHANGED <<pvars, now>>
  ELSE IF GateClosed(now, last_tick)
    THEN /\ call' = <<"action_task", "gated">>
         /\ UNCHANGED <<pvars, now>>
  ELSE /\ Stamp(d)
       /\ CASE step = 0 ->
                 \E f \in FrameAt(action_num, num) :
                   IF f[1] # 0
                     THEN RunFrame(f) /\ call' = <<"action_task", "apply">>
                     ELSE Finished /\ call' = <<"action_task", "done">>
            [] step = 1 ->
                 WaitRun /\ call' = <<"action_task", "wait">>
            [] OTHER ->
                 StepDefault /\ call' = <<"action_task", "default">>

\* The time one call took, in half gate intervals.
CallTook == (2 * SubU32(now', now)[2]) \div GateMs

\* action_task called at any moment; the time it takes counts as clock advance
ActionTask ==
  /\ \E d \in ReadDrift : TaskCall(d)
  /\ adv' = adv + CallTook
  /\ adv' <= MaxAdv
  /\ UNCHANGED <<hvars, jumps, svars, ivars, prog, evars, dvars, wvars, rvars>>

-----------------------------------------------------------------------------
(* A second HW_ACTION_CTL object.  action_num and extended_func_angles are *)
(* members (uhand_servo.h:9,17), one per object; last_tick, step, num and  *)
(* delay_count are statics of action_task (uhand_servo.cpp:13-14), one per *)
(* program.                                                                *)

\* void HW_ACTION_CTL::action_set(int num), on the second object
SetNumB(n) ==
  /\ b_action_num' = n
  /\ UNCHANGED <<b_extended_func_angles, pvars>>

\* (variant: the angles are one array for both objects)
RunFrameB_both(f) ==
  /\ b_extended_func_angles' = <<f[2], f[3], f[4], f[5], f[6], f[7]>>
  /\ extended_func_angles' = <<f[2], f[3], f[4], f[5], f[6], f[7]>>
  /\ step' = 1
  /\ UNCHANGED <<b_action_num, num, delay_count, action_num>>

\* case 0, frame present, on the second object
RunFrameB(f) ==
  /\ b_extended_func_angles' = <<f[2], f[3], f[4], f[5], f[6], f[7]>>
  /\ step' = 1
  /\ UNCHANGED <<b_action_num, num, delay_count>>
  /\ UNCHANGED <<action_num, extended_func_angles>>

\* case 0, sentinel, on the second object
FinishedB ==
  /\ num' = 0
  /\ b_action_num' = 0
  /\ UNCHANGED <<b_extended_func_angles, step, delay_count>>
  /\ UNCHANGED <<action_num, extended_func_angles>>

\* void HW_ACTION_CTL::action_task(void), called on the second object
TaskCallB(d) ==
  IF ~PlayGuard(b_action_num)
    THEN /\ call' = <<"b.action_task", "idle">>
         /\ UNCHANGED <<b_action_num, b_extended_func_angles, pvars, now>>
  ELSE IF GateClosed(now, last_tick)
    THEN /\ call' = <<"b.action_task", "gated">>
         /\ UNCHANGED <<b_action_num, b_extended_func_angles, pvars, now>>
  ELSE /\ Stamp(d)
       /\ CASE step = 0 ->
                 \E f \in FrameAt(b_action_num, num) :
                   IF f[1] # 0
                     THEN RunFrameB(f) /\ call' = <<"b.action_task", "apply">>
                     ELSE FinishedB /\ call' = <<"b.action_task", "done">>
            [] step = 1 ->
                 /\ WaitRun /\ call' = <<"b.action_task", "wait">>
                 /\ UNCHANGED <<b_action_num, b_extended_func_angles>>
            [] OTHER ->
                 /\ StepDefault /\ call' = <<"b.action_task", "default">>
                 /\ UNCHANGED <<b_action_num, b_extended_func_angles>>

-----------------------------------------------------------------------------
(* HW_ACTION_CTL, simple variant (uhand_actions_simple): one pose per       *)
(* action, action[][7] (its actions.h is not part of the sources either).  *)

action_simple ==
  << <<1, 10, 20, 30, 40, 50, 60>>,
     <<0, 90, 80, 70, 60, 50, 40>>,
     <<1, 0, 0, 0, 0, 0, 90>> >>

\* The rows the expression action[a-1] may denote.
SimpleRowAt(a) ==
  IF a \in 1..action_count THEN { action_simple[a] } ELSE StrayFrames

\* (variant: the request is not cleared)
SimpleCopy_keep(f) ==
  /\ extended_func_angles' = <<f[2], f[3], f[4], f[5], f[6], f[7]>>
  /\ UNCHANGED <<action_num, last_tick, step, num, delay_count>>

\* copy columns 1..6 of the row, then action_num = 0
SimpleCopy(f) ==
  /\ extended_func_angles' = <<f[2], f[3], f[4], f[5], f[6], f[7]>>
  /\ action_num' = 0
  /\ UNCHANGED <<last_tick, step, num, delay_count>>

\* void HW_ACTION_CTL::action_task(void), simple variant
SimpleTaskCall ==
  IF ~PlayGuard(action_num)
    THEN /\ call' = <<"action_task", "idle">>
         /\ UNCHANGED pvars
    ELSE \E f \in SimpleRowAt(action_num) :
           SimpleCopy(f) /\ call' = <<"action_task", "apply">>

SimpleTask ==
  /\ SimpleTaskCall
  /\ UNCHANGED <<now, hvars, adv, jumps, svars, ivars, prog, evars, dvars, wvars, rvars>>

-----------------------------------------------------------------------------
(* The clock: millis() is a uint32_t that only moves forward and wraps.    *)

AdvanceSteps == {GateMs \div 2, GateMs}
LongIdle == SubU32(U32Of(0, 0), U32Of(0, 2 * GateMs + GateMs \div 2))

Tick(d) ==
  /\ now' = AddU32(now, d)
  /\ call' = <<"millis">>
  /\ UNCHANGED <<pvars, svars, ivars, prog, dvars, rvars>>

\* Time passes (any caller, any moment).
Advance(d) ==
  /\ adv + (2 * d) \div GateMs <= MaxAdv
  /\ Tick(U32Of(0, d))
  /\ adv' = adv + (2 * d) \div GateMs
  /\ UNCHANGED <<evars, hvars, jumps, wvars>>

\* A long period without the clock being looked at, which brings millis()
\* close to its wrap-around.
IdleJump ==
  /\ jumps < MaxJumps
  /\ Tick(LongIdle)
  /\ jumps' = jumps + 1
  /\ UNCHANGED <<evars, hvars, adv, wvars>>

-----------------------------------------------------------------------------
(* HW_ESP32Cam: the I2C link to the camera module.                         *)

ESP32CAM_ADDR == 82
ReadLen == 4
ClampPositionReg == 1
TracePositionReg == 2

Regs == {0, 1, 2}

\* What the device does in one transaction: whether the register-address
\* write is acknowledged (Wire.endTransmission() = 0) and, if it is, the
\* bytes Wire.available()/Wire.read() then deliver.
NoAck == [wok |-> FALSE, bytes |-> <<>>]
Payloads ==
  { <<>>, <<11>>, <<11, 22>>, <<11, 22, 33>>, <<11, 22, 0>>,
    <<11, 22, 33, 44>>, <<11, 22, 0, 44>>, <<0, 0, 255, 0>>, <<0, 0, 0, 0>>,
    <<11, 22, 33, 44, 55>>, <<11, 22, 0, 44, 55>> }
Resp == {NoAck} \cup { [wok |-> TRUE, bytes |-> p] : p \in Payloads }

\* Contents a stack array may hold before anything is stored in it.
StackJunk == {0, 255}
\* Contents of the buffer the caller hands to color_position.
CallerBufs == { <<0, 0, 0, 0>>, <<7, 7, 7, 7>> }

\* (variant: the status of closing the transmission is not looked at)
WireWriteByte_unchecked(val, b) == TRUE

\* static bool WireWriteByte(uint8_t val)
WireWriteByte(val, b) == b[val].wok

\* (variant: bytes beyond len are left on the bus and the count is returned)
RECURSIVE Drain_noOverrun(_, _, _, _)
Drain_noOverrun(i, val, avail, len) ==
  IF avail = <<>> \/ i >= len
    THEN [ret |-> i, val |-> val, reads |-> i]
  ELSE Drain_noOverrun(IncU8(i), [val EXCEPT ![i + 1] = Head(avail)], Tail(avail), len)

\* The loop of WireReadDataArray: i bytes stored so far, avail still to come.
RECURSIVE Drain(_, _, _, _)
Drain(i, val, avail, len) ==
  IF avail = <<>>
    THEN [ret |-> i, val |-> val, reads |-> i]
  ELSE IF i >= len
    THEN [ret |-> 0 - 1, val |-> val, reads |-> i]
  ELSE Drain(IncU8(i), [val EXCEPT ![i + 1] = Head(avail)], Tail(avail), len)

\* static int WireReadDataArray(uint8_t reg, uint8_t *val, unsigned int len)
\* ret: the value returned; val: the buffer afterwards; tx: the transaction
\* as seen on the bus.
WireReadDataArray(reg, val, len, b) ==
  IF ~WireWriteByte(reg, b)
    THEN [ret |-> 0 - 1, val |-> val,
          tx |-> [addr |-> ESP32CAM_ADDR, reg |-> reg, len |-> len,
                  requested |-> FALSE, reads |-> 0, ret |-> 0 - 1]]
    ELSE LET d == Drain(0, val, b[reg].bytes, len)
         IN  [ret |-> d.ret, val |-> d.val,
              tx |-> [addr |-> ESP32CAM_ADDR, reg |-> reg, len |-> len,
                      requested |-> TRUE, reads |-> d.reads, ret |-> d.ret]]

\* (variant: the byte count is not looked at)
Detected_widthOnly(r) == r.val[3] > 0

\* (variant: the width is not looked at)
Detected_anyWidth(r) == r.ret = 4

\* (num == 4) && (info[2] > 0)
Detected(r) == r.ret = 4 /\ r.val[3] > 0

\* (variant: the face is looked for in register 0x00)
faceDetect_reg0(b, junk) ==
  LET r == WireReadDataArray(0, <<junk, junk, junk, junk>>, ReadLen, b)
  IN  [ret |-> Detected(r), log |-> <<r.tx>>]

\* (variant: a failed read is tried a second time)
faceDetect_retry(b, junk) ==
  LET r == WireReadDataArray(1, <<junk, junk, junk, junk>>, ReadLen, b)
  IN  IF r.ret = ReadLen
        THEN [ret |-> Detected(r), log |-> <<r.tx>>]
        ELSE [ret |-> Detected(r), log |-> <<r.tx, r.tx>>]

\* bool HW_ESP32Cam::faceDetect(void)
faceDetect(b, junk) ==
  LET r == WireReadDataArray(1, <<junk, junk, junk, junk>>, ReadLen, b)
  IN  [ret |-> Detected(r), log |-> <<r.tx>>]

\* (variant: green is tested before red)
colorDetect_greenFirst(b, junk) ==
  LET info == <<junk, junk, junk, junk>>
      r0 == WireReadDataArray(0, info, ReadLen, b)
      r1 == WireReadDataArray(1, info, ReadLen, b)
      r2 == WireReadDataArray(2, info, ReadLen, b)
  IN  IF Detected(r1) THEN [ret |-> 2, log |-> <<r1.tx>>]
      ELSE IF Detected(r0) THEN [ret |-> 1, log |-> <<r1.tx, r0.tx>>]
      ELSE IF Detected(r2) THEN [ret |-> 3, log |-> <<r1.tx, r0.tx, r2.tx>>]
      ELSE [ret |-> 0, log |-> <<r1.tx, r0.tx, r2.tx>>]

\* (variant: the three channels are read first, then tested)
colorDetect_readAll(b, junk) ==
  LET info == <<junk, junk, junk, junk>>
      r0 == WireReadDataArray(0, info, ReadLen, b)
      r1 == WireReadDataArray(1, info, ReadLen, b)
      r2 == WireReadDataArray(2, info, ReadLen, b)
      all == <<r0.tx, r1.tx, r2.tx>>
  IN  IF Detected(r0) THEN [ret |-> 1, log |-> all]
      ELSE IF Detected(r1) THEN [ret |-> 2, log |-> all]
      ELSE IF Detected(r2) THEN [ret |-> 3, log |-> all]
      ELSE [ret |-> 0, log |-> all]

\* (variant: a channel whose read fails ends the scan)
colorDetect_abort(b, junk) ==
  LET info == <<junk, junk, junk, junk>>
      r0 == WireReadDataArray(0, info, ReadLen, b)
      r1 == WireReadDataArray(1, info, ReadLen, b)
      r2 == WireReadDataArray(2, info, ReadLen, b)
  IN  IF Detected(r0) THEN [ret |-> 1, log |-> <<r0.tx>>]
      ELSE IF r0.ret # ReadLen THEN [ret |-> 0, log |-> <<r0.tx>>]
      ELSE IF Detected(r1) THEN [ret |-> 2, log |-> <<r0.tx, r1.tx>>]
      ELSE IF r1.ret # ReadLen THEN [ret |-> 0, log |-> <<r0.tx, r1.tx>>]
      ELSE IF Detected(r2) THEN [ret |-> 3, log |-> <<r0.tx, r1.tx, r2.tx>>]
      ELSE [ret |-> 0, log |-> <<r0.tx, r1.tx, r2.tx>>]

\* int HW_ESP32Cam::colorDetect(void)
colorDetect(b, junk) ==
  LET info == <<junk, junk, junk, junk>>
      r0 == WireReadDataArray(0, info, ReadLen, b)
      r1 == WireReadDataArray(1, info, ReadLen, b)
      r2 == WireReadDataArray(2, info, ReadLen, b)
  IN  IF Detected(r0) THEN [ret |-> 1, log |-> <<r0.tx>>]
      ELSE IF Detected(r1) THEN [ret |-> 2, log |-> <<r0.tx, r1.tx>>]
      ELSE IF Detected(r2) THEN [ret |-> 3, log |-> <<r0.tx, r1.tx, r2.tx>>]
      ELSE [ret |-> 0, log |-> <<r0.tx, r1.tx, r2.tx>>]

\* (variant: both examples read the position from the same register)
PositionReg_same(v) == ClampPositionReg

\* The register color_position reads in each example.
PositionReg(v) == IF v = "clamp" THEN ClampPositionReg ELSE TracePositionReg

\* (variant: the bytes are read into a local array, not the caller's)
color_position_local(v, color_info, b) ==
  LET r == WireReadDataArray(PositionReg(v), color_info, ReadLen, b)
  IN  [ret |-> Detected(r), val |-> color_info, log |-> <<r.tx>>]

\* bool HW_ESP32Cam::color_position(uint8_t *color_info)
color_position(v, color_info, b) ==
  LET r == WireReadDataArray(PositionReg(v), color_info, ReadLen, b)
  IN  [ret |-> Detected(r), val |-> r.val, log |-> <<r.tx>>]

-----------------------------------------------------------------------------
(* HW_ESP32Cam of the trace example (uhand_colors_trace_esp32cam), which   *)
(* has its own copy of every function.                                     *)

\* static bool WireWriteByte(uint8_t val), trace example
trace_WireWriteByte(val, b) == b[val].wok

\* The loop of WireReadDataArray, trace example
RECURSIVE trace_Drain(_, _, _, _)
trace_Drain(i, val, avail, len) ==
  IF avail = <<>>
    THEN [ret |-> i, val |-> val, reads |-> i]
  ELSE IF i >= len
    THEN [ret |-> 0 - 1, val |-> val, reads |-> i]
  ELSE trace_Drain(IncU8(i), [val EXCEPT ![i + 1] = Head(avail)], Tail(avail), len)

\* static int WireReadDataArray(uint8_t reg, uint8_t *val, unsigned int len),
\* trace example
trace_WireReadDataArray(reg, val, len, b) ==
  IF ~trace_WireWriteByte(reg, b)
    THEN [ret |-> 0 - 1, val |-> val,
          tx |-> [addr |-> ESP32CAM_ADDR, reg |-> reg, len |-> len,
                  requested |-> FALSE, reads |-> 0, ret |-> 0 - 1]]
    ELSE LET d == trace_Drain(0, val, b[reg].bytes, len)
         IN  [ret |-> d.ret, val |-> d.val,
              tx |-> [addr |-> ESP32CAM_ADDR, reg |-> reg, len |-> len,
                      requested |-> TRUE, reads |-> d.reads, ret |-> d.ret]]

\* (num == 4) && (info[2] > 0), trace example
trace_Detected(r) == r.ret = 4 /\ r.val[3] > 0

\* bool HW_ESP32Cam::faceDetect(void), trace example
trace_faceDetect(b, junk) ==
  LET r == trace_WireReadDataArray(1, <<junk, junk, junk, junk>>, ReadLen, b)
  IN  [ret |-> trace_Detected(r), log |-> <<r.tx>>]

\* int HW_ESP32Cam::colorDetect(void), trace example
trace_colorDetect(b, junk) ==
  LET info == <<junk, junk, junk, junk>>
      r0 == trace_WireReadDataArray(0, info, ReadLen, b)
      r1 == trace_WireReadDataArray(1, info, ReadLen, b)
      r2 == trace_WireReadDataArray(2, info, ReadLen, b)
  IN  IF trace_Detected(r0) THEN [ret |-> 1, log |-> <<r0.tx>>]
      ELSE IF trace_Detected(r1) THEN [ret |-> 2, log |-> <<r0.tx, r1.tx>>]
      ELSE IF trace_Detected(r2) THEN [ret |-> 3, log |-> <<r0.tx, r1.tx, r2.tx>>]
      ELSE [ret |-> 0, log |-> <<r0.tx, r1.tx, r2.tx>>]

\* bool HW_ESP32Cam::color_position(uint8_t *color_info), trace example
trace_color_position(color_info, b) ==
  LET r == trace_WireReadDataArray(TracePositionReg, color_info, ReadLen, b)
  IN  [ret |-> trace_Detected(r), val |-> r.val, log |-> <<r.tx>>]

\* The method as the example v has it.
FaceDetectOf(v, b, junk) ==
  IF v = "clamp" THEN faceDetect(b, junk) ELSE trace_faceDetect(b, junk)

ColorDetectOf(v, b, junk) ==
  IF v = "clamp" THEN colorDetect(b, junk) ELSE trace_colorDetect(b, junk)

ColorPositionOf(v, color_info, b) ==
  IF v = "clamp" THEN color_position(v, color_info, b)
                 ELSE trace_color_position(color_info, b)

NoBuf == <<>>

FaceDetect ==
  \E junk \in StackJunk :
    LET c == FaceDetectOf(variant, bus, junk)
    IN  /\ s_call' = "faceDetect"
        /\ s_ret' = c.ret
        /\ s_log' = c.log
        /\ s_buf0' = NoBuf
        /\ s_buf' = NoBuf
        /\ UNCHANGED <<variant, bus, avars, prog, evars, dvars, wvars, rvars>>

ColorDetect ==
  \E junk \in StackJunk :
    LET c == ColorDetectOf(variant, bus, junk)
    IN  /\ s_call' = "colorDetect"
        /\ s_ret' = c.ret
        /\ s_log' = c.log
        /\ s_buf0' = NoBuf
        /\ s_buf' = NoBuf
        /\ UNCHANGED <<variant, bus, avars, prog, evars, dvars, wvars, rvars>>

ColorPosition ==
  \E color_info \in CallerBufs :
    LET c == ColorPositionOf(variant, color_info, bus)
    IN  /\ s_call' = "color_position"
        /\ s_ret' = c.ret
        /\ s_log' = c.log
        /\ s_buf0' = color_info
        /\ s_buf' = c.val
        /\ UNCHANGED <<variant, bus, avars, prog, evars, dvars, wvars, rvars>>

\* The device's answer for one register changes (the camera sees something
\* else, or the bus starts or stops failing); what was observed of the last
\* call is dropped with it.
BusChange(r, x) ==
  /\ bus[r] # x
  /\ bus' = [bus EXCEPT ![r] = x]
  /\ s_call' = "none"
  /\ s_ret' = FALSE
  /\ s_log' = <<>>
  /\ s_buf0' = NoBuf
  /\ s_buf' = NoBuf
  /\ UNCHANGED <<variant, avars, prog, evars, dvars, wvars, rvars>>

-----------------------------------------------------------------------------
(* Spec: the player under any interleaving of its operations.              *)

SetValues == (-1)..(action_count + 1)

InitPlayer ==
  /\ action_num = 0
  /\ extended_func_angles = InitAngles
  /\ last_tick = U32Of(0, 0)
  /\ step = 0
  /\ num = 0
  /\ delay_count = 0
  /\ now = U32Of(0, 0)
  /\ call = <<"init">>
  /\ playing = 0
  /\ applied = <<>>
  /\ gticks = 0
  /\ adv = 0
  /\ jumps = 0
  /\ plays = 0
  /\ b_action_num = 0
  /\ b_extended_func_angles = InitAngles
  /\ b_playing = 0
  /\ b_applied = <<>>
  /\ w_ticks = 0 - 1
  /\ w_ms = 0
  /\ w_gap = <<>>
  /\ e_adv = 0
  /\ e_jumps = 0
  /\ e_last = U32Of(0, 0)
  /\ d_pc = "idle"
  /\ d_i = 0
  /\ d_val = <<0, 0, 0, 0>>
  /\ d_ret = 0
  /\ d_reads = 0
  /\ d_exit = "none"

PairQuiet ==
  /\ p_call = "none"
  /\ p_ret = <<FALSE, FALSE>>
  /\ p_log = <<<<>>, <<>>>>

SensorQuiet ==
  /\ s_call = "none"
  /\ s_ret = FALSE
  /\ s_log = <<>>
  /\ s_buf0 = NoBuf
  /\ s_buf = NoBuf

Init ==
  /\ InitPlayer
  /\ prog = "table"
  /\ variant = "clamp"
  /\ bus = [r \in Regs |-> NoAck]
  /\ SensorQuiet
  /\ p_variant = <<"clamp", "clamp">>
  /\ p_buf = <<NoBuf, NoBuf>>
  /\ PairQuiet

Next ==
  \/ \E n \in SetValues : ActionSet(n)
  \/ ActionStateGet
  \/ ActionTask
  \/ \E d \in AdvanceSteps : Advance(d)
  \/ IdleJump

Spec == Init /\ [][Next]_vars

-----------------------------------------------------------------------------
(* SpecPlay: actions played one at a time.  action_set is called with an   *)
(* index of the table while the player is idle, and the clock is advanced  *)
(* until the gate opens, so every action_task call that finds the gate     *)
(* closed is followed by one that finds it open.                           *)

PlaySet(a) ==
  /\ action_num = 0
  /\ plays < MaxPlays
  /\ SetNum(a)
  /\ call' = <<"action_set", a>>
  /\ playing' = a
  /\ applied' = <<>>
  /\ gticks' = 0
  /\ plays' = plays + 1
  /\ UNCHANGED <<now, adv, jumps, svars, ivars, prog, evars, dvars, wvars, rvars>>

PlayTask ==
  /\ \E d \in ReadDrift : TaskCall(d)
  /\ gticks' = IF call'[2] \in {"apply", "done", "wait", "default"}
                 THEN gticks + 1 ELSE gticks
  /\ applied' = IF call'[2] = "apply"
                  THEN Append(applied, extended_func_angles') ELSE applied
  /\ UNCHANGED <<playing, plays, adv, jumps, svars, ivars, prog, evars, dvars, wvars, rvars>>

PlayAdvance(d) ==
  /\ action_num # 0
  /\ LtU32(SubU32(now, last_tick), U32Of(0, 100))
  /\ Tick(U32Of(0, d))
  /\ UNCHANGED <<evars, hvars, adv, jumps, wvars>>

PlayIdle ==
  /\ action_num = 0
  /\ IdleJump

NextPlay ==
  \/ \E a \in 1..action_count : PlaySet(a)
  \/ PlayTask
  \/ ActionStateGet
  \/ \E d \in AdvanceSteps : PlayAdvance(d)
  \/ PlayIdle

SpecPlay == Init /\ [][NextPlay]_vars

LiveSpec == SpecPlay /\ WF_vars(PlayTask) /\ WF_vars(\E d \in AdvanceSteps : PlayAdvance(d))

-----------------------------------------------------------------------------
(* SpecOver: action_set may be called at any moment, also while an action  *)
(* is being played; `playing` and `applied` follow the latest request.     *)

OverSet(a) ==
  /\ plays < MaxSets
  /\ SetNum(a)
  /\ call' = <<"action_set", a>>
  /\ playing' = a
  /\ applied' = <<>>
  /\ gticks' = 0
  /\ plays' = plays + 1
  /\ UNCHANGED <<now, adv, jumps, svars, ivars, prog, evars, dvars, wvars, rvars>>

NextOver ==
  \/ \E a \in 0..action_count : OverSet(a)
  \/ PlayTask
  \/ ActionStateGet
  \/ \E d \in AdvanceSteps : PlayAdvance(d)
  \/ PlayIdle

SpecOver == Init /\ [][NextOver]_vars

-----------------------------------------------------------------------------
(* SpecTwo: two HW_ACTION_CTL objects in one program.  Each is given one   *)
(* action, at any moment, and their action_task calls interleave in any    *)
(* order; the clock is advanced until the gate opens.                      *)

TwoSetA(a) ==
  /\ playing = 0
  /\ PlaySet(a)

TwoSetB(a) ==
  /\ b_playing = 0
  /\ SetNumB(a)
  /\ call' = <<"b.action_set", a>>
  /\ b_playing' = a
  /\ b_applied' = <<>>
  /\ UNCHANGED <<now, hvars, adv, jumps, svars, prog, evars, dvars, wvars, rvars>>

TwoTaskB ==
  /\ \E d \in ReadDrift : TaskCallB(d)
  /\ b_applied' = IF call'[2] = "apply"
                    THEN Append(b_applied, b_extended_func_angles')
                    ELSE b_applied
  /\ UNCHANGED <<hvars, b_playing, adv, jumps, svars, prog, evars, dvars, wvars, rvars>>

TwoAdvance(d) ==
  /\ action_num # 0 \/ b_action_num # 0
  /\ LtU32(SubU32(now, last_tick), U32Of(0, 100))
  /\ Tick(U32Of(0, d))
  /\ UNCHANGED <<evars, hvars, adv, jumps, wvars>>

NextTwo ==
  \/ \E a \in 1..action_count : TwoSetA(a)
  \/ \E a \in 1..action_count : TwoSetB(a)
  \/ PlayTask
  \/ TwoTaskB
  \/ \E d \in AdvanceSteps : TwoAdvance(d)

SpecTwo == Init /\ [][NextTwo]_vars

-----------------------------------------------------------------------------
(* SpecSensor: the sensor link of either example against any device.       *)

InitSensor ==
  /\ InitPlayer
  /\ prog = "table"
  /\ variant \in {"clamp", "trace"}
  /\ bus \in [Regs -> Resp]
  /\ SensorQuiet
  /\ p_variant = <<variant, variant>>
  /\ p_buf = <<NoBuf, NoBuf>>
  /\ PairQuiet

NextSensor ==
  \/ FaceDetect
  \/ ColorDetect
  \/ ColorPosition
  \/ \E r \in Regs : \E x \in Resp : BusChange(r, x)

SpecSensor == InitSensor /\ [][NextSensor]_vars

-----------------------------------------------------------------------------
(* SpecPair: two runs of the sensor link side by side on one bus.  Each    *)
(* run executes one of the examples and owns the buffer it hands to        *)
(* color_position, which it keeps from call to call.  A run may call       *)
(* color_position on its own (the histories of the two runs then differ);  *)
(* in a joint call both runs execute the same method and receive the same  *)
(* responses.                                                              *)

PairPayloads ==
  { <<11>>, <<11, 22, 0, 44>>, <<11, 22, 33, 44>>, <<11, 22, 0, 44, 55>> }
PairResp == {NoAck} \cup { [wok |-> TRUE, bytes |-> q] : q \in PairPayloads }
PairVariants ==
  { <<"clamp", "clamp">>, <<"trace", "trace">>, <<"clamp", "trace">> }

InitPair ==
  /\ InitPlayer
  /\ prog = "table"
  /\ variant = "clamp"
  /\ bus \in [Regs -> PairResp]
  /\ SensorQuiet
  /\ p_variant \in PairVariants
  /\ p_buf \in CallerBufs \X CallerBufs
  /\ PairQuiet

\* One run calls color_position on its own.
PairSolo(i) ==
  LET c == ColorPositionOf(p_variant[i], p_buf[i], bus)
  IN  /\ c.val # p_buf[i]
      /\ p_buf' = [p_buf EXCEPT ![i] = c.val]
      /\ p_call' = "none"
      /\ p_ret' = <<FALSE, FALSE>>
      /\ p_log' = <<<<>>, <<>>>>
      /\ UNCHANGED <<p_variant, avars, svars, prog, evars, dvars, wvars>>

\* Both runs call faceDetect().
PairFace ==
  \E j1, j2 \in StackJunk :
    LET c1 == FaceDetectOf(p_variant[1], bus, j1)
        c2 == FaceDetectOf(p_variant[2], bus, j2)
    IN  /\ p_call' = "faceDetect"
        /\ p_ret' = <<c1.ret, c2.ret>>
        /\ p_log' = <<c1.log, c2.log>>
        /\ UNCHANGED <<p_variant, p_buf, avars, svars, prog, evars, dvars, wvars>>

\* Both runs call colorDetect().
PairColor ==
  \E j1, j2 \in StackJunk :
    LET c1 == ColorDetectOf(p_variant[1], bus, j1)
        c2 == ColorDetectOf(p_variant[2], bus, j2)
    IN  /\ p_call' = "colorDetect"
        /\ p_ret' = <<c1.ret, c2.ret>>
        /\ p_log' = <<c1.log, c2.log>>
        /\ UNCHANGED <<p_variant, p_buf, avars, svars, prog, evars, dvars, wvars>>

\* Both runs call color_position(), each with its own buffer.
PairPosition ==
  LET c1 == ColorPositionOf(p_variant[1], p_buf[1], bus)
      c2 == ColorPositionOf(p_variant[2], p_buf[2], bus)
  IN  /\ p_call' = "color_position"
      /\ p_ret' = <<c1.ret, c2.ret>>
      /\ p_log' = <<c1.log, c2.log>>
      /\ p_buf' = <<c1.val, c2.val>>
      /\ UNCHANGED <<p_variant, avars, svars, prog, evars, dvars, wvars>>

\* The device's answer for one register changes.
PairBus(r, x) ==
  /\ bus[r] # x
  /\ bus' = [bus EXCEPT ![r] = x]
  /\ p_call' = "none"
  /\ p_ret' = <<FALSE, FALSE>>
  /\ p_log' = <<<<>>, <<>>>>
  /\ UNCHANGED <<p_variant, p_buf, avars, prog, evars, dvars, wvars>>
  /\ UNCHANGED <<variant, s_call, s_ret, s_log, s_buf0, s_buf>>

NextPair ==
  \/ \E i \in {1, 2} : PairSolo(i)
  \/ PairFace
  \/ PairColor
  \/ PairPosition
  \/ \E r \in Regs : \E x \in PairResp : PairBus(r, x)

SpecPair == InitPair /\ [][NextPair]_vars

-----------------------------------------------------------------------------
(* SpecSimple: the simple variant under any interleaving of its operations *)

NextSimple ==
  \/ \E n \in SetValues : ActionSet(n)
  \/ ActionStateGet
  \/ SimpleTask
  \/ \E d \in AdvanceSteps : Advance(d)

\* Either player program, from its initial state.
InitEither ==
  /\ InitPlayer
  /\ prog \in {"table", "simple"}
  /\ variant = "clamp"
  /\ bus = [r \in Regs |-> NoAck]
  /\ SensorQuiet
  /\ p_variant = <<"clamp", "clamp">>
  /\ p_buf = <<NoBuf, NoBuf>>
  /\ PairQuiet

InitSimple == InitEither /\ prog = "simple"

SpecSimple == InitSimple /\ [][NextSimple]_vars

-----------------------------------------------------------------------------
(* SpecGap: the table-driven player under any interleaving, as Spec, with  *)
(* the distance between its writes to extended_func_angles observed: in    *)
(* gate-passing action_task calls and in elapsed milliseconds (counted up  *)
(* to MaxGapTicks and MaxGapMs).                                           *)

Least(x, y) == IF x <= y THEN x ELSE y

GapTask ==
  /\ \E d \in ReadDrift : TaskCall(d)
  /\ IF call'[2] = "apply"
       THEN /\ w_gap' = IF w_ticks < 0
                          THEN <<>>
                          ELSE <<Least(w_ticks + 1, MaxGapTicks),
                                 Least(w_ms + SubU32(now', now)[2], MaxGapMs)>>
            /\ w_ticks' = 0
            /\ w_ms' = 0
     ELSE IF call'[2] \in {"done", "wait", "default"} /\ w_ticks >= 0
       THEN /\ w_ticks' = Least(w_ticks + 1, MaxGapTicks)
            /\ w_ms' = Least(w_ms + SubU32(now', now)[2], MaxGapMs)
            /\ UNCHANGED w_gap
     ELSE UNCHANGED wvars
  /\ adv' = adv + CallTook
  /\ adv' <= MaxAdv
  /\ UNCHANGED <<hvars, jumps, svars, ivars, prog, evars, dvars, rvars>>

GapAdvance(d) ==
  /\ adv + (2 * d) \div GateMs <= MaxAdv
  /\ Tick(U32Of(0, d))
  /\ adv' = adv + (2 * d) \div GateMs
  /\ w_ms' = IF w_ticks >= 0 THEN Least(w_ms + d, MaxGapMs) ELSE w_ms
  /\ UNCHANGED <<evars, hvars, jumps, w_ticks, w_gap>>

GapIdle ==
  /\ jumps < MaxJumps
  /\ Tick(LongIdle)
  /\ jumps' = jumps + 1
  /\ w_ms' = IF w_ticks >= 0 THEN MaxGapMs ELSE w_ms
  /\ UNCHANGED <<evars, hvars, adv, w_ticks, w_gap>>

NextGap ==
  \/ \E n \in SetValues : ActionSet(n)
  \/ ActionStateGet
  \/ GapTask
  \/ \E d \in AdvanceSteps : GapAdvance(d)
  \/ GapIdle

SpecGap == Init /\ [][NextGap]_vars

-----------------------------------------------------------------------------
(* SpecWrap: the table-driven player under any interleaving, as Spec, with *)
(* the time since last_tick was stamped observed apart from millis(): the  *)
(* milliseconds the clock was advanced and the long idle periods since.    *)

WrapTask ==
  /\ \E d \in ReadDrift : TaskCall(d)
  /\ IF call'[2] \in {"apply", "done", "wait", "default"}
       THEN /\ e_adv' = 0
            /\ e_jumps' = 0
            /\ e_last' = last_tick
       ELSE UNCHANGED evars
  /\ adv' = adv + CallTook
  /\ adv' <= MaxAdv
  /\ UNCHANGED <<hvars, jumps, svars, ivars, prog, wvars, rvars, dvars>>

WrapAdvance(d) ==
  /\ adv + (2 * d) \div GateMs <= MaxAdv
  /\ Tick(U32Of(0, d))
  /\ adv' = adv + (2 * d) \div GateMs
  /\ e_adv' = e_adv + d
  /\ UNCHANGED <<hvars, jumps, wvars, e_jumps, e_last>>

WrapIdle ==
  /\ jumps < MaxJumps
  /\ Tick(LongIdle)
  /\ jumps' = jumps + 1
  /\ e_jumps' = e_jumps + 1
  /\ UNCHANGED <<hvars, adv, wvars, e_adv, e_last>>

NextWrap ==
  \/ \E n \in SetValues : ActionSet(n)
  \/ ActionStateGet
  \/ WrapTask
  \/ \E d \in AdvanceSteps : WrapAdvance(d)
  \/ WrapIdle

SpecWrap == Init /\ [][NextWrap]_vars

-----------------------------------------------------------------------------
(* SpecDrain: WireReadDataArray(reg, val, 4) executed statement by         *)
(* statement.  The bus decides, at every test of the while loop, whether a *)
(* byte is available and which byte Wire.read() yields; it may go on       *)
(* supplying bytes without end.                                            *)

\* Bytes the bus may supply.
ByteVals == {0, 11, 255}

\* (variant: the index is not compared with len)
DrainGuard_never(i, len) == FALSE

\* if (i >= len)
DrainGuard(i, len) == i >= len

\* Entry: i = 0, the register address is written; a failed write returns -1.
DrainCall(val, ack) ==
  /\ d_pc \in {"idle", "done"}
  /\ d_i' = 0
  /\ d_reads' = 0
  /\ d_val' = val
  /\ IF ack
       THEN d_pc' = "loop" /\ d_ret' = 0 /\ d_exit' = "none"
       ELSE d_pc' = "done" /\ d_ret' = 0 - 1 /\ d_exit' = "nack"
  /\ UNCHANGED <<avars, svars, prog, wvars, rvars, evars>>

\* One test of while (Wire.available()) and, if it holds, one pass of the body.
DrainStep(avail, byte) ==
  /\ d_pc = "loop"
  /\ IF ~avail
       THEN /\ d_pc' = "done"
            /\ d_ret' = d_i
            /\ d_exit' = "empty"
            /\ UNCHANGED <<d_i, d_val, d_reads>>
     ELSE IF DrainGuard(d_i, ReadLen)
       THEN /\ d_pc' = "done"
            /\ d_ret' = 0 - 1
            /\ d_exit' = "overrun"
            /\ UNCHANGED <<d_i, d_val, d_reads>>
     ELSE /\ d_val' = [d_val EXCEPT ![d_i + 1] = byte]
          /\ d_i' = IncU8(d_i)
          /\ d_reads' = Least(d_reads + 1, MaxReads)
          /\ UNCHANGED <<d_pc, d_ret, d_exit>>
  /\ UNCHANGED <<avars, svars, prog, wvars, rvars, evars>>

DrainLoop == \E avail \in BOOLEAN : \E byte \in ByteVals : DrainStep(avail, byte)

NextDrain ==
  \/ \E val \in CallerBufs : \E ack \in BOOLEAN : DrainCall(val, ack)
  \/ DrainLoop

SpecDrain == Init /\ [][NextDrain]_vars

\* The function, once called, keeps executing.
LiveDrain == SpecDrain /\ WF_vars(DrainLoop)

-----------------------------------------------------------------------------
(* SpecEither: one of the two player programs, whichever was built, under  *)
(* any interleaving of its operations.                                     *)

\* action_task() of the program that runs
EitherTask == IF prog = "table" THEN ActionTask ELSE SimpleTask

NextEither ==
  \/ \E n \in SetValues : ActionSet(n)
  \/ ActionStateGet
  \/ EitherTask
  \/ \E d \in AdvanceSteps : Advance(d)
  \/ IdleJump

SpecEither == InitEither /\ [][NextEither]_vars

-----------------------------------------------------------------------------
(* Properties of the table-driven player *)

IsPrefix(p, q) == Len(p) <= Len(q) /\ SubSeq(q, 1, Len(p)) = p

\* C1: after action_set(a) with a in 1..action_count, and action_task called
\* again and again with the gate open, action_state_get() eventually returns
\* 0, and by then the angle vectors written are exactly the frames of row a
\* before its first sentinel, each once and in order.
C1_PlaysEveryFrame ==
  /\ \A a \in 1..action_count :
       (playing = a /\ action_num = a)
         ~> (playing = a /\ StateGet = 0 /\ applied = RealFrames(a))
  /\ [](playing # 0 => IsPrefix(applied, RealFrames(playing)))
  /\ [](playing # 0 /\ StateGet = 0 => applied = RealFrames(playing))

C1_Witness ==
  /\ playing = 2
  /\ call = <<"action_state_get", 0>>
  /\ applied = <<<<90, 80, 70, 60, 50, 40>>, <<0, 0, 0, 0, 0, 255>>,
                 <<5, 6, 7, 8, 9, 0>>>>

\* C2: an action_task call made while millis() - last_tick < 100 leaves
\* action_num, step, num, delay_count, last_tick and the six angles as they
\* were.
C2_GatedTaskChangesNothing ==
  [][ (call'[1] = "action_task" /\ LtU32(SubU32(now, last_tick), <<0, 100>>))
        => /\ action_num' = action_num
           /\ step' = step
           /\ num' = num
           /\ delay_count' = delay_count
           /\ last_tick' = last_tick
           /\ \A j \in 1..6 : extended_func_angles'[j] = extended_func_angles[j]
    ]_vars

C2_Witness ==
  /\ call = <<"action_task", "gated">>
  /\ action_num \in 1..action_count
  /\ step = 1
  /\ delay_count = 1
  /\ now # last_tick
  /\ LtU32(SubU32(now, last_tick), <<0, 100>>)

\* C7: with row 1 = one frame [1,10,20,30,40,50,60] then a sentinel, from the
\* initial state and action_set(1): the first gate-passing tick writes
\* [10,20,30,40,50,60], the three WAIT ticks keep it, and the fifth tick ends
\* the action (action_state_get() = 0) without touching the angles.
C7_OneFrameScenario ==
  /\ action[1][1] = <<1, 10, 20, 30, 40, 50, 60>> /\ action[1][2][1] = 0
  /\ (playing = 1 /\ gticks = 0) => StateGet = 1
  /\ (playing = 1 /\ gticks \in 1..4)
       => (extended_func_angles = <<10, 20, 30, 40, 50, 60>> /\ StateGet = 1)
  /\ (playing = 1 /\ gticks >= 5)
       => (extended_func_angles = <<10, 20, 30, 40, 50, 60>> /\ StateGet = 0
           /\ gticks = 5)

C7_Witness ==
  /\ playing = 1
  /\ plays = 1
  /\ gticks = 5
  /\ call = <<"action_task", "done">>
  /\ extended_func_angles = <<10, 20, 30, 40, 50, 60>>
  /\ action_num = 0

\* C8: the angles are written only by an action_task call that starts with
\* action_num # 0, and the call that meets the sentinel frame leaves both
\* action_num and num at 0.
C8_WritesOnlyWhilePlaying ==
  [][ /\ (extended_func_angles' # extended_func_angles \/ call' = <<"action_task", "apply">>)
          => (call'[1] = "action_task" /\ action_num # 0)
      /\ (call' = <<"action_task", "done">> => (action_num' = 0 /\ num' = 0))
    ]_vars

C8_Witness ==
  /\ call = <<"action_task", "done">>
  /\ action_num = 0
  /\ num = 0
  /\ extended_func_angles = <<10, 20, 30, 40, 50, 60>>

-----------------------------------------------------------------------------
(* Properties of the sensor link *)

\* What the device delivers for register r.
Delivered(r) == bus[r].bytes
\* The read of register r delivers exactly 4 bytes.
Exact4(r) == bus[r].wok /\ Len(Delivered(r)) = 4
\* The width field (byte index 2) of what register r delivers.
WidthNonzero(r) == bus[r].wok /\ Len(Delivered(r)) >= 3 /\ Delivered(r)[3] # 0
WidthZero(r) == bus[r].wok /\ Len(Delivered(r)) >= 3 /\ Delivered(r)[3] = 0
\* The register color_position reads in the example that is running.
PosReg == IF variant = "clamp" THEN 1 ELSE 2

\* C3 as stated: colorDetect() returns 1 whenever the width field of channel
\* 0 is nonzero.
C3_AsStated ==
  (s_call = "colorDetect" /\ WidthNonzero(0)) => s_ret = 1

\* C3: colorDetect() returns 1 whenever the read of register 0x00 delivers
\* exactly 4 bytes with a nonzero width field, whatever registers 0x01 and
\* 0x02 hold.
C3_RedWins ==
  (s_call = "colorDetect" /\ Exact4(0) /\ WidthNonzero(0)) => s_ret = 1

C3_Witness ==
  /\ s_call = "colorDetect"
  /\ Exact4(0) /\ WidthNonzero(0)
  /\ Exact4(1) /\ WidthNonzero(1)
  /\ Exact4(2) /\ WidthNonzero(2)
  /\ s_ret = 1

\* C4: colorDetect() returns 0 when all three channels report a zero width
\* field, and it has then issued the three transactions 0x00, 0x01, 0x02.
C4_NoColor ==
  (s_call = "colorDetect" /\ \A r \in Regs : WidthZero(r))
    => /\ s_ret = 0
       /\ Len(s_log) = 3
       /\ \A k \in 1..3 : s_log[k].reg = k - 1 /\ s_log[k].requested

C4_Witness ==
  /\ s_call = "colorDetect"
  /\ \A r \in Regs : Exact4(r) /\ WidthZero(r)
  /\ s_ret = 0
  /\ Len(s_log) = 3

\* C5 as stated: when the read delivers a byte count other than 4,
\* faceDetect() and color_position(buffer) return false and the caller's
\* buffer is as it was before the call.
C5_AsStated ==
  /\ (s_call = "faceDetect" /\ bus[1].wok /\ Len(Delivered(1)) # 4)
       => s_ret = FALSE
  /\ (s_call = "color_position" /\ bus[PosReg].wok /\ Len(Delivered(PosReg)) # 4)
       => (s_ret = FALSE /\ s_buf = s_buf0)

\* C5: when the read delivers a byte count other than 4, faceDetect() and
\* color_position(buffer) return false; the caller's buffer then holds the
\* delivered bytes in its first min(count, 4) places and its old contents in
\* the others (so it is as before only when nothing was delivered).
C5_WrongCount ==
  /\ (s_call = "faceDetect" /\ bus[1].wok /\ Len(Delivered(1)) # 4)
       => s_ret = FALSE
  /\ (s_call = "color_position" /\ bus[PosReg].wok /\ Len(Delivered(PosReg)) # 4)
       => /\ s_ret = FALSE
          /\ \A i \in 1..4 :
               s_buf[i] = IF i <= Len(Delivered(PosReg))
                            THEN Delivered(PosReg)[i] ELSE s_buf0[i]

C5_Witness ==
  /\ s_call = "color_position"
  /\ Delivered(PosReg) = <<11, 22, 33>>
  /\ s_buf0 = <<0, 0, 0, 0>>
  /\ s_buf = <<11, 22, 33, 0>>
  /\ s_ret = FALSE

\* C6: when the address write succeeds and the bus delivers exactly 4 bytes
\* [x, y, w, h] with w > 0, color_position(buffer) returns true and the buffer
\* holds those 4 bytes in order.
C6_RoundTrip ==
  (s_call = "color_position" /\ Exact4(PosReg) /\ Delivered(PosReg)[3] > 0)
    => (s_ret = TRUE /\ s_buf = Delivered(PosReg))

C6_Witness ==
  /\ s_call = "color_position"
  /\ Delivered(PosReg) = <<11, 22, 33, 44>>
  /\ s_buf0 = <<7, 7, 7, 7>>
  /\ s_buf = <<11, 22, 33, 44>>
  /\ s_ret = TRUE

\* C9: faceDetect() issues one transaction, at register 0x01 for 4 bytes, and
\* returns true exactly when 4 bytes were read and byte 2 is nonzero (so
\* false when the address write fails).
C9_FaceDetect ==
  s_call = "faceDetect"
    => /\ Len(s_log) = 1
       /\ s_log[1].reg = 1
       /\ s_log[1].len = 4
       /\ s_log[1].requested = bus[1].wok
       /\ s_ret = (Exact4(1) /\ Delivered(1)[3] # 0)

C9_Witness ==
  /\ s_call = "faceDetect"
  /\ s_ret = TRUE
  /\ Delivered(1) = <<0, 0, 255, 0>>
  /\ ~bus[0].wok

\* C10: color_position(buffer) issues one transaction for 4 bytes and returns
\* true exactly when the read length is 4 and buffer[2] is nonzero; a 4-byte
\* read with width 0 returns false.
C10_ColorPosition ==
  s_call = "color_position"
    => /\ Len(s_log) = 1
       /\ s_log[1].len = 4
       /\ s_log[1].reg = PosReg
       /\ s_ret = (Exact4(PosReg) /\ s_buf[3] # 0)

C10_Witness ==
  /\ s_call = "color_position"
  /\ Delivered(PosReg) = <<11, 22, 0, 44>>
  /\ s_buf0 = <<7, 7, 7, 7>>
  /\ s_buf = <<11, 22, 0, 44>>
  /\ s_ret = FALSE

\* The read of register r delivers exactly 4 bytes with a nonzero width.
Reports(r) == Exact4(r) /\ Delivered(r)[3] # 0
\* The read of register r fails: the address write is not acknowledged, or
\* the number of bytes available is not 4.
BusFailure(r) == ~bus[r].wok \/ Len(Delivered(r)) # 4

\* C11 as stated: colorDetect() issues 1 to 3 transactions, in the order
\* 0x00, 0x01, 0x02 and none twice, and stops as soon as a channel reports a
\* nonzero width; after returning 1 it has read 0x00 only, after returning 2
\* 0x00 and 0x01 only; it returns 0, 1, 2 or 3.
C11_AsStated ==
  s_call = "colorDetect"
    => /\ s_ret \in 0..3
       /\ Len(s_log) \in 1..3
       /\ \A k \in 1..Len(s_log) : s_log[k].reg = k - 1
       /\ (s_ret = 1 => Len(s_log) = 1)
       /\ (s_ret = 2 => Len(s_log) = 2)
       /\ \A k \in 1..3 :
            (WidthNonzero(k - 1) /\ \A j \in 1..(k - 1) : ~WidthNonzero(j - 1))
              => Len(s_log) = k

\* C11: colorDetect() issues 1 to 3 transactions, in the order 0x00, 0x01,
\* 0x02 and none twice, and stops at the first channel whose read delivers
\* exactly 4 bytes with a nonzero width: after returning 1 it has read 0x00
\* only, after returning 2 0x00 and 0x01 only; it returns 0, 1, 2 or 3.
C11_ShortCircuit ==
  s_call = "colorDetect"
    => /\ s_ret \in 0..3
       /\ Len(s_log) \in 1..3
       /\ \A k \in 1..Len(s_log) : s_log[k].reg = k - 1
       /\ (s_ret = 1 => Len(s_log) = 1)
       /\ (s_ret = 2 => Len(s_log) = 2)
       /\ \A k \in 1..3 :
            (Reports(k - 1) /\ \A j \in 1..(k - 1) : ~Reports(j - 1))
              => (Len(s_log) = k /\ s_ret = k)

C11_Witness ==
  /\ s_call = "colorDetect"
  /\ s_ret = 2
  /\ Len(s_log) = 2
  /\ Exact4(0) /\ WidthZero(0)
  /\ Reports(2)

\* C12 as stated: a failed address write or a read of a length other than 4
\* makes WireReadDataArray return -1 and the method that issued it return
\* false (faceDetect, color_position) or 0 (colorDetect).
C12_AsStated ==
  /\ \A k \in 1..Len(s_log) : BusFailure(s_log[k].reg) => s_log[k].ret = 0 - 1
  /\ (s_call = "faceDetect" /\ BusFailure(1)) => s_ret = FALSE
  /\ (s_call = "color_position" /\ BusFailure(PosReg)) => s_ret = FALSE
  /\ (s_call = "colorDetect" /\ \E k \in 1..Len(s_log) : BusFailure(s_log[k].reg))
       => s_ret = 0

\* C12: WireReadDataArray returns -1 when the address write fails or more
\* than 4 bytes are available, and the number of bytes read (0..3) when fewer
\* than 4 are; in each of these cases faceDetect and color_position return
\* false, and colorDetect does not return the code of the failed channel (it
\* returns 0 when every channel it read failed).
C12_BusFailure ==
  /\ \A k \in 1..Len(s_log) :
       LET r == s_log[k].reg
       IN  /\ (~bus[r].wok \/ Len(Delivered(r)) > 4) => s_log[k].ret = 0 - 1
           /\ (bus[r].wok /\ Len(Delivered(r)) < 4) => s_log[k].ret = Len(Delivered(r))
  /\ (s_call = "faceDetect" /\ BusFailure(1)) => s_ret = FALSE
  /\ (s_call = "color_position" /\ BusFailure(PosReg)) => s_ret = FALSE
  /\ s_call = "colorDetect"
       => /\ \A r \in Regs : BusFailure(r) => s_ret # r + 1
          /\ (\A r \in Regs : BusFailure(r)) => s_ret = 0

C12_Witness ==
  /\ s_call = "colorDetect"
  /\ ~bus[0].wok
  /\ Len(Delivered(1)) = 5
  /\ Len(Delivered(2)) = 2
  /\ s_log[1].ret = 0 - 1 /\ s_log[2].ret = 0 - 1 /\ s_log[3].ret = 2
  /\ s_ret = 0

\* C13: no method retries: within one call no register address is written
\* twice, a read request is made only after an acknowledged address write
\* (once), faceDetect and color_position perform at most 1 transaction and
\* colorDetect at most 3, whatever the bus reports.
C13_NoRetry ==
  /\ \A i, j \in 1..Len(s_log) : s_log[i].reg = s_log[j].reg => i = j
  /\ \A k \in 1..Len(s_log) :
       /\ s_log[k].requested = bus[s_log[k].reg].wok
       /\ s_log[k].reads <= s_log[k].len
  /\ s_call \in {"faceDetect", "color_position"} => Len(s_log) <= 1
  /\ s_call = "colorDetect" => Len(s_log) <= 3

C13_Witness ==
  /\ s_call = "faceDetect"
  /\ ~bus[1].wok
  /\ Len(s_log) = 1
  /\ ~s_log[1].requested
  /\ s_ret = FALSE

-----------------------------------------------------------------------------
(* Properties of the player's operations, under any interleaving (Spec) *)

\* The gate of the call that is being made is open: at least 100 ms
\* (modulo 2^32) since last_tick.
GateOpenNow == ~LtU32(SubU32(now, last_tick), <<0, 100>>)
\* The six angle columns of a frame.
Angles(f) == <<f[2], f[3], f[4], f[5], f[6], f[7]>>

\* C14: action_set(n) sets action_num to n, for any n, and changes nothing
\* else; action_state_get() returns action_num and changes nothing; so the
\* angles are written by action_task only.
C14_SetAndGetFrame ==
  [][ /\ call'[1] = "action_set"
          => /\ action_num' = call'[2]
             /\ UNCHANGED <<extended_func_angles, step, num, delay_count, last_tick>>
      /\ call'[1] = "action_state_get"
          => /\ call'[2] = action_num
             /\ UNCHANGED <<action_num, extended_func_angles, step, num,
                            delay_count, last_tick>>
      /\ extended_func_angles' # extended_func_angles => call'[1] = "action_task"
    ]_vars

C14_Witness ==
  /\ call = <<"action_set", 0 - 1>>
  /\ action_num = 0 - 1
  /\ step = 1
  /\ num = 1
  /\ delay_count = 1
  /\ extended_func_angles = <<0, 0, 0, 0, 0, 255>>

\* C16: for every value of action_num outside 1..action_count, negative
\* values included, action_task() does not read the action table.
C16_NoReadOutOfRange ==
  [][ (call'[1] = "action_task" /\ call'[2] \in {"apply", "done"})
        => action_num \in 1..action_count ]_vars

\* C17: a gate-passing tick in APPLY: if column 0 of the current frame is
\* nonzero its columns 1..6 become the angles, the phase becomes WAIT, and
\* action_num and num stay; if it is zero, num and action_num become 0, the
\* phase stays APPLY and the angles stay.
C17_ApplyPhase ==
  [][ (/\ call'[1] = "action_task"
       /\ action_num \in 1..action_count
       /\ GateOpenNow
       /\ step = 0
       /\ num < FrameDim)
        => LET f == action[action_num][num + 1]
           IN  IF f[1] # 0
                 THEN /\ extended_func_angles' = Angles(f)
                      /\ step' = 1
                      /\ action_num' = action_num
                      /\ num' = num
                 ELSE /\ num' = 0
                      /\ action_num' = 0
                      /\ step' = 0
                      /\ extended_func_angles' = extended_func_angles
    ]_vars

C17_Witness ==
  /\ call = <<"action_task", "apply">>
  /\ action_num = 2
  /\ num = 1
  /\ step = 1
  /\ extended_func_angles = Angles(action[2][2])

\* C18: a gate-passing tick in WAIT adds 1 to the wait counter and changes
\* nothing else while the counter stays within 2; the tick that would take it
\* past 2 adds 1 to num, resets the counter and returns to APPLY.  The counter
\* is 0 when a frame is applied, so this is the third gate-passing tick after
\* the frame was applied, each at least 100 ms after the one before; the
\* angles are not written in WAIT.
C18_WaitPhase ==
  [][ /\ (/\ call'[1] = "action_task"
          /\ action_num # 0 /\ action_num <= action_count
          /\ GateOpenNow
          /\ step = 1)
           => /\ extended_func_angles' = extended_func_angles
              /\ action_num' = action_num
              /\ last_tick' = now'
              /\ IF delay_count < 2
                   THEN /\ delay_count' = delay_count + 1
                        /\ num' = num
                        /\ step' = 1
                   ELSE /\ delay_count' = 0
                        /\ num' = num + 1
                        /\ step' = 0
      /\ call' = <<"action_task", "apply">> => (delay_count' = 0 /\ step' = 1)
      /\ delay_count' \in 0..2
      /\ step' = 0 => delay_count' = 0
    ]_vars

C18_Witness ==
  /\ call = <<"action_task", "wait">>
  /\ step = 0
  /\ num = 1
  /\ delay_count = 0
  /\ action_num = 2
  /\ extended_func_angles = Angles(action[2][1])

\* C15: simple variant: for action_num in 1..action_count one action_task()
\* call copies columns 1..6 of action[action_num-1] to the angles and sets
\* action_num to 0, whatever the clock says and without touching the phase,
\* the frame index or the wait counter; a call with action_num = 0 (as after
\* that call) changes nothing.
C15_SimpleOneShot ==
  [][ call'[1] = "action_task"
        => /\ action_num \in 1..action_count
                => /\ extended_func_angles' = Angles(action_simple[action_num])
                   /\ action_num' = 0
                   /\ UNCHANGED <<last_tick, step, num, delay_count>>
           /\ action_num = 0 => UNCHANGED pvars
    ]_vars

C15_Witness ==
  /\ call = <<"action_task", "apply">>
  /\ now = <<0, 0>>
  /\ last_tick = <<0, 0>>
  /\ extended_func_angles = <<90, 80, 70, 60, 50, 40>>
  /\ action_num = 0
  /\ step = 0

\* C19: action_set keeps the frame index, the phase and the wait counter, so
\* the first frame applied for a request made while another action was in
\* progress (or cancelled in its WAIT phase) is the frame at the index the
\* earlier action had reached, which can be greater than 0.
C19_OverwriteKeepsProgress ==
  [][ /\ call'[1] = "action_set" => UNCHANGED <<num, step, delay_count>>
      /\ ( /\ call' = <<"action_task", "apply">>
           /\ applied = <<>>
           /\ playing \in 1..action_count )
           => applied' = <<Angles(action[playing][num + 1])>>
    ]_vars

\* Action 2 was requested while an earlier action had reached frame index 1:
\* the first frame applied for it is its frame 1, frame 0 is skipped.
C19_Witness ==
  /\ playing = 2
  /\ plays >= 2
  /\ action_num = 2
  /\ num = 1
  /\ applied = <<Angles(action[2][2])>>
  /\ applied # <<Angles(action[2][1])>>

SharedStatics == <<step, num, delay_count>>

\* C20: with two objects, a gate-passing action_task call on either one
\* stamps the one last_tick (so the gate is closed for both), moves the one
\* phase / frame index / wait counter, and touches only its own action_num
\* and angles; the frame an object applies is the frame of its own action at
\* the shared index.
C20_SharedStatics ==
  [][ /\ ( /\ call'[1] = "b.action_task"
           /\ call'[2] \notin {"idle", "gated"} )
           => /\ last_tick' = now'
              /\ GateClosed(now', last_tick')
              /\ SharedStatics' # SharedStatics
              /\ UNCHANGED <<action_num, extended_func_angles>>
              /\ call'[2] = "apply"
                   => b_applied' =
                        Append(b_applied, Angles(action[b_action_num][num + 1]))
      /\ ( /\ call'[1] = "action_task"
           /\ call'[2] \notin {"idle", "gated"} )
           => /\ last_tick' = now'
              /\ GateClosed(now', last_tick')
              /\ SharedStatics' # SharedStatics
              /\ UNCHANGED <<b_action_num, b_extended_func_angles>>
              /\ call'[2] = "apply"
                   => applied' =
                        Append(applied, Angles(action[action_num][num + 1]))
    ]_vars

\* Both objects have finished, and neither has applied the frames of its own
\* action, each once and in order.
C20_Witness ==
  /\ playing # 0 /\ b_playing # 0
  /\ action_num = 0 /\ b_action_num = 0
  /\ applied # RealFrames(playing)
  /\ b_applied # RealFrames(b_playing)

-----------------------------------------------------------------------------
(* Properties of one bus transaction and of the channel scan (SpecSensor) *)

\* C21: every transaction sends its register address to device 0x52; when
\* that write is not acknowledged, WireReadDataArray returns -1, makes no
\* read request, reads no byte, and the caller's buffer is as it was.
C21_WritePhase ==
  /\ \A k \in 1..Len(s_log) :
       /\ s_log[k].addr = 82
       /\ s_log[k].reg \in Regs
       /\ ~bus[s_log[k].reg].wok
            => /\ s_log[k].ret = 0 - 1
               /\ ~s_log[k].requested
               /\ s_log[k].reads = 0
  /\ (s_call = "color_position" /\ ~bus[PosReg].wok) => s_buf = s_buf0

C21_Witness ==
  /\ s_call = "color_position"
  /\ ~bus[PosReg].wok
  /\ s_buf0 = <<7, 7, 7, 7>>
  /\ s_buf = <<7, 7, 7, 7>>
  /\ s_log[1].addr = 82
  /\ s_log[1].ret = 0 - 1
  /\ ~s_log[1].requested

\* The smaller of two numbers.
Min(x, y) == IF x <= y THEN x ELSE y

\* C22: after an acknowledged address write with n bytes available for a
\* read of len bytes, min(n, len) bytes are read, the k-th into buffer place
\* k, the other places of the buffer keep their contents, and the value
\* returned is -1 when n > len and n otherwise.
C22_ReadPhase ==
  /\ \A k \in 1..Len(s_log) :
       LET n == Len(Delivered(s_log[k].reg))
       IN  bus[s_log[k].reg].wok
             => /\ s_log[k].requested
                /\ s_log[k].reads = Min(n, s_log[k].len)
                /\ s_log[k].ret = IF n > s_log[k].len THEN 0 - 1 ELSE n
                /\ s_log[k].ret \in (0 - 1)..s_log[k].len
  /\ (s_call = "color_position" /\ bus[PosReg].wok)
       => /\ Len(s_buf) = Len(s_buf0)
          /\ \A i \in 1..Len(s_buf) :
               s_buf[i] = IF i <= Len(Delivered(PosReg))
                            THEN Delivered(PosReg)[i] ELSE s_buf0[i]

C22_Witness ==
  /\ s_call = "color_position"
  /\ Delivered(PosReg) = <<11, 22, 0, 44, 55>>
  /\ s_buf0 = <<7, 7, 7, 7>>
  /\ s_buf = <<11, 22, 0, 44>>
  /\ s_log[1].reads = 4
  /\ s_log[1].ret = 0 - 1

\* The code of the first channel, in the order 0x00, 0x01, 0x02, whose read
\* delivers exactly 4 bytes with a nonzero width; 0 if there is none.
FirstReporting ==
  IF Reports(0) THEN 1 ELSE IF Reports(1) THEN 2 ELSE IF Reports(2) THEN 3 ELSE 0

\* C25: colorDetect() returns the code of the first channel, in the order
\* 0x00, 0x01, 0x02, whose read delivers exactly 4 bytes with a nonzero
\* width, and 0 if there is none; a channel whose read failed or came short
\* is passed over and the later channels are still read.
C25_FailedChannelSkipped ==
  s_call = "colorDetect"
    => /\ s_ret = FirstReporting
       /\ \A k \in 1..Len(s_log) :
            (BusFailure(s_log[k].reg) /\ k < 3) => Len(s_log) > k

C25_Witness ==
  /\ s_call = "colorDetect"
  /\ ~bus[0].wok
  /\ Len(Delivered(1)) = 3
  /\ Reports(2)
  /\ s_log[1].ret = 0 - 1
  /\ s_ret = 3

-----------------------------------------------------------------------------
(* Properties of an undisturbed play (SpecPlay) and of the frame index     *)

\* C28: in a play with no action_set before its end, of a row with k frames
\* before its sentinel, frame i (from 0) is applied on gate-passing tick
\* 4i+1 and action_state_get() is 0 from gate-passing tick 4k+1 on, not
\* earlier.
C28_ExactTicks ==
  /\ [](playing # 0
          => /\ gticks <= 4 * RealCount(playing, 0) + 1
             /\ (StateGet = 0) <=> (gticks = 4 * RealCount(playing, 0) + 1))
  /\ [][ call' = <<"action_task", "apply">>
           => /\ gticks' = 4 * Len(applied) + 1
              /\ applied' = Append(applied, Angles(action[playing][Len(applied) + 1]))
       ]_vars

C28_Witness ==
  /\ playing = 2
  /\ call = <<"action_task", "done">>
  /\ StateGet = 0
  /\ gticks = 13
  /\ Len(applied) = 3

\* C29: when a play with no action_set before its end is over, the phase,
\* the frame index and the wait counter are 0 as at the start, and the
\* angles are those of the last frame applied; every such play begins with
\* frame 0 of its row.
C29_CleanCompletion ==
  /\ action_num = 0 => (step = 0 /\ num = 0 /\ delay_count = 0)
  /\ (playing # 0 /\ action_num = 0 /\ applied # <<>>)
       => extended_func_angles = applied[Len(applied)]
  /\ (playing # 0 /\ applied # <<>>)
       => applied[1] = Angles(action[playing][1])

\* The second of two plays is over.
C29_Witness ==
  /\ plays = 2
  /\ playing = 1
  /\ action_num = 0
  /\ step = 0 /\ num = 0 /\ delay_count = 0
  /\ applied = <<Angles(action[1][1])>>
  /\ extended_func_angles = <<10, 20, 30, 40, 50, 60>>

\* The last frame slot of every row of the table is a sentinel.
LastSlotSentinel == \A a \in 1..action_count : action[a][FrameDim][1] = 0

\* C30: with a sentinel in the last frame slot of every row, and action_set
\* called at any moment with values in 0..action_count, the frame index
\* stays below the frame dimension of the table.
C30_FrameIndexBound ==
  LastSlotSentinel => (num >= 0 /\ num < FrameDim)

\* Action 3 is about to read the last slot of its row; it got there from the
\* index another action had reached.
C30_Witness ==
  /\ LastSlotSentinel
  /\ playing = 3
  /\ action_num = 3
  /\ step = 0
  /\ num = FrameDim - 1

-----------------------------------------------------------------------------
(* Properties of either player program (SpecEither) *)

\* C26: while action_num holds a value greater than action_count, every
\* action_task() call changes nothing (whatever the clock says), and
\* action_state_get() returns that value; only action_set changes it.  This
\* holds in the table-driven and in the simple program.
C26_StuckRequest ==
  [][ action_num > action_count
        => /\ call'[1] = "action_task"
                => (call'[2] = "idle" /\ UNCHANGED pvars)
           /\ call'[1] = "action_state_get"
                => (call'[2] = action_num /\ call'[2] # 0)
           /\ call'[1] # "action_set" => action_num' = action_num
    ]_vars

\* The table-driven program was asked for action 4 of 3, time has passed so
\* that the gate is open, and action_task() has just returned.
C26_Witness ==
  /\ prog = "table"
  /\ action_num = 4
  /\ call = <<"action_task", "idle">>
  /\ GateOpenNow
  /\ extended_func_angles = <<0, 0, 0, 0, 0, 90>>

-----------------------------------------------------------------------------
(* Spacing of the writes (SpecGap) *)

\* C27: whatever action_set calls (with any values) come in between, a write
\* to extended_func_angles comes no earlier than the 4th gate-passing
\* action_task call after the previous write, and no earlier than 400 ms
\* after it.
C27_WriteSpacing ==
  w_gap # <<>> => (w_gap[1] >= 4 /\ w_gap[2] >= 400)

\* Two writes as close as they get.
C27_Witness ==
  /\ call = <<"action_task", "apply">>
  /\ w_gap = <<4, 400>>
  /\ w_ticks = 0

-----------------------------------------------------------------------------
(* Two runs side by side (SpecPair) *)

\* Both runs have just made the same call on the same bus.
JointCall == p_call # "none"
\* One run executes the clamp example, the other the trace example.
ClampAndTrace == p_variant = <<"clamp", "trace">>
\* Both runs execute the same example.
SameExample == p_variant[1] = p_variant[2]
\* A transaction with its register left out.
Shape(tx) == [addr |-> tx.addr, len |-> tx.len]

\* C23: with the clamp example and the trace example run side by side on the
\* same bus responses, faceDetect() and colorDetect() issue the same
\* transactions and return the same value in both; color_position() issues
\* one transaction in each, at register 0x01 in clamp and at 0x02 in trace,
\* and when the two registers answer alike the two calls return the same
\* value and store the same bytes.
C23_VariantsAgree ==
  (JointCall /\ ClampAndTrace)
    => /\ p_call \in {"faceDetect", "colorDetect"}
            => (p_ret[1] = p_ret[2] /\ p_log[1] = p_log[2])
       /\ p_call = "color_position"
            => /\ Len(p_log[1]) = 1 /\ Len(p_log[2]) = 1
               /\ p_log[1][1].reg = 1
               /\ p_log[2][1].reg = 2
               /\ Shape(p_log[1][1]) = Shape(p_log[2][1])
               /\ bus[1] = bus[2]
                    => /\ p_ret[1] = p_ret[2]
                       /\ p_log[1][1].ret = p_log[2][1].ret
                       /\ \A i \in 1..Least(Len(Delivered(1)), 4) :
                            p_buf[1][i] = p_buf[2][i]

\* The two registers answer differently, and so do the two examples.
C23_Witness ==
  /\ JointCall /\ ClampAndTrace
  /\ p_call = "color_position"
  /\ Delivered(1) = <<11, 22, 33, 44>>
  /\ Delivered(2) = <<11, 22, 0, 44>>
  /\ p_ret = <<TRUE, FALSE>>
  /\ p_log[1][1].reg = 1
  /\ p_log[2][1].reg = 2

\* C24 as stated: two runs of the same example that have made different
\* calls before, and now make the same call with the same responses, get
\* the same return value and the same buffer contents.
C24_AsStated ==
  (JointCall /\ SameExample)
    => /\ p_ret[1] = p_ret[2]
       /\ p_call = "color_position" => p_buf[1] = p_buf[2]

\* C24: two runs of the same example that have made different calls before,
\* and now make the same call with the same responses, issue the same
\* transactions and get the same return value; after color_position() the
\* buffer places the call stored into (the first min(n, 4) for n bytes
\* delivered) hold the same bytes in both runs, and the whole buffer does
\* when 4 or more bytes were delivered.
C24_NoStateBetweenCalls ==
  (JointCall /\ SameExample)
    => /\ p_ret[1] = p_ret[2]
       /\ p_log[1] = p_log[2]
       /\ p_call = "color_position"
            => LET r == PositionReg(p_variant[1])
                   n == IF bus[r].wok THEN Len(Delivered(r)) ELSE 0
               IN  /\ \A i \in 1..Least(n, 4) :
                         p_buf[1][i] = Delivered(r)[i] /\ p_buf[2][i] = Delivered(r)[i]
                   /\ n >= 4 => p_buf[1] = p_buf[2]

\* The same short answer in both runs, and buffers that differ after it.
C24_Witness ==
  /\ JointCall /\ SameExample
  /\ p_call = "color_position"
  /\ Delivered(PositionReg(p_variant[1])) = <<11>>
  /\ p_ret = <<FALSE, FALSE>>
  /\ p_buf[1] = <<11, 22, 33, 44>>
  /\ p_buf[2] = <<11, 7, 7, 7>>

-----------------------------------------------------------------------------
(* Idle calls and the gate (SpecPlay); the phase and the wait counter (Spec) *)

\* C31: an action_task() call made while action_num is 0 changes nothing,
\* last_tick included; so when the player has been idle for 100 ms or more
\* by its clock (millis() - last_tick >= 100) the first action_task() call
\* after action_set applies frame 0; and from start-up no frame is applied
\* while millis() is below 100.
C31_IdleTicksAndGate ==
  /\ [][ call'[1] = "action_task"
           => /\ action_num = 0
                   => (call'[2] = "idle" /\ UNCHANGED pvars)
              /\ (call[1] = "action_set" /\ action_num # 0 /\ GateOpenNow)
                   => /\ call'[2] = "apply"
                      /\ extended_func_angles' = Angles(action[playing][1])
                      /\ applied' = <<Angles(action[playing][1])>>
       ]_vars
  /\ []((jumps = 0 /\ last_tick = <<0, 0>> /\ LtU32(now, <<0, 100>>))
          => (applied = <<>> /\ extended_func_angles = <<0, 0, 0, 0, 0, 90>>))

\* The player was idle from start-up for a long period, then given action
\* 2; the call that followed applied frame 0 at once.
C31_Witness ==
  /\ plays = 1
  /\ playing = 2
  /\ jumps = 1
  /\ now = LongIdle
  /\ last_tick = now
  /\ gticks = 1
  /\ call = <<"action_task", "apply">>
  /\ applied = <<<<90, 80, 70, 60, 50, 40>>>>

\* C33: between calls the phase is 0 or 1, the wait counter is 0, 1 or 2
\* and is 0 whenever the phase is 0, and no action_task() call takes the
\* default branch of the switch, under any interleaving of action_set (with
\* any values) and action_task.
C33_PhaseInvariant ==
  /\ step \in {0, 1}
  /\ delay_count \in 0..2
  /\ step = 0 => delay_count = 0
  /\ call # <<"action_task", "default">>

C33_Witness ==
  /\ step = 1
  /\ delay_count = 2
  /\ call = <<"action_task", "wait">>
  /\ action_num \in 1..action_count

-----------------------------------------------------------------------------
(* The gate across the wrap-around of millis() (SpecWrap) *)

\* The time elapsed since last_tick was stamped, modulo 2^32, is 100 ms or
\* more.  A long idle period lasts 2^32 - 250 ms, so the elapsed time is
\* e_adv - 250 * e_jumps modulo 2^32, a number between -2^31 and 2^31 here.
Elapsed100 ==
  LET x == e_adv - 250 * e_jumps
  IN  x < 0 \/ x >= 100

\* C32: an action_task() call that has an action to play passes the gate
\* exactly when 100 ms or more, modulo 2^32, have elapsed since the last
\* call that passed it (since start-up before the first), whether or not
\* millis() has wrapped around in between; a call that passes stamps
\* last_tick with millis().
C32_GateAcrossWrap ==
  [][ (call'[1] = "action_task" /\ call'[2] # "idle")
        => /\ (call'[2] # "gated") <=> Elapsed100
           /\ call'[2] # "gated" => last_tick' = now'
           /\ call'[2] = "gated" => last_tick' = last_tick
    ]_vars

\* A call has passed the gate at a clock value below the last_tick it found.
C32_Witness ==
  /\ call = <<"action_task", "wait">>
  /\ last_tick = now
  /\ LtU32(now, e_last)
  /\ e_adv = 0 /\ e_jumps = 0

-----------------------------------------------------------------------------
(* Termination of the drain loop (LiveDrain) *)

\* C34: a call of WireReadDataArray with len = 4 that has entered its loop
\* leaves it, whatever the bus supplies; Wire.read() is called at most 4
\* times (once per increment of i), and the function is left with -1 when
\* the address write failed, with i when no byte is available, and with -1
\* at the first byte found available after 4 bytes were stored.
C34_DrainTerminates ==
  /\ (d_pc = "loop") ~> (d_pc = "done")
  /\ [](d_reads <= 4 /\ d_i = d_reads)
  /\ [](d_pc = "done"
          => /\ d_exit \in {"nack", "empty", "overrun"}
             /\ d_exit = "nack" => (d_reads = 0 /\ d_ret = 0 - 1)
             /\ d_exit = "empty" => d_ret = d_reads
             /\ d_exit = "overrun" => (d_reads = 4 /\ d_ret = 0 - 1))

\* The bus kept supplying bytes; the call ended after 4 of them.
C34_Witness ==
  /\ d_pc = "done"
  /\ d_exit = "overrun"
  /\ d_reads = 4
  /\ d_ret = 0 - 1
  /\ d_val = <<255, 11, 0, 255>>

====
